---- MODULE Spec2Model ----
(***************************************************************************)
(* Model of GetGitHubCommitsFromDevOpsBuild.py: a linear pipeline that     *)
(* loads a JSON configuration, resolves two Azure DevOps build numbers to  *)
(* commit SHAs, fetches the commits between them with the gh CLI, extracts *)
(* ticket references and writes a Markdown report.                         *)
(*                                                                         *)
(* Python strings are modelled as sequences of atoms.  An atom is a TLA+   *)
(* string: a single character wherever the code inspects characters        *)
(* (regular expressions, slicing, upper()), or an opaque literal chunk     *)
(* (such as "https://github.com/") where the code only concatenates.       *)
(* None is the atom sequence <<"None">>; a missing dictionary key is       *)
(* <<"Missing">>.  Neither can be confused with a string of characters.    *)
(***************************************************************************)
EXTENDS Integers, Sequences, FiniteSets, TLC

VARIABLES argv, disk, config, pc, exit_code, builds, warned, commit_shas,
          commit_list, compare_url, refs_links, files, calls, arg, ret

vars == <<argv, disk, config, pc, exit_code, builds, warned, commit_shas,
          commit_list, compare_url, refs_links, files, calls, arg, ret>>

None == <<"None">>
Missing == <<"Missing">>

(***************************************************************************)
(* Bounds of the model.                                                    *)
(***************************************************************************)
MaxArgs == 4
MaxCfgBuilds == 3
MaxBuilds == 3
MaxCommits == 3

(***************************************************************************)
(* Characters.                                                             *)
(***************************************************************************)
LowerSeq == <<"a","b","c","d","e","f","g","h","i","j","k","l","m",
              "n","o","p","q","r","s","t","u","v","w","x","y","z">>
UpperSeq == <<"A","B","C","D","E","F","G","H","I","J","K","L","M",
              "N","O","P","Q","R","S","T","U","V","W","X","Y","Z">>
DigitSeq == <<"0","1","2","3","4","5","6","7","8","9">>

Range(s) == {s[i] : i \in 1..Len(s)}
IndexOf(s, c) == CHOOSE i \in 1..Len(s) : s[i] = c

LowerSet == Range(LowerSeq)
UpperSet == Range(UpperSeq)
DigitSet == Range(DigitSeq)

IsLower(c) == c \in LowerSet
IsUpper(c) == c \in UpperSet
IsLetter(c) == IsLower(c) \/ IsUpper(c)
IsDigit(c) == c \in DigitSet
IsWordChar(c) == IsLetter(c) \/ IsDigit(c) \/ c = "_"

\* the code point of the characters that can occur in a matched reference
CharCode(c) ==
    IF c = "-" THEN 45
    ELSE IF IsDigit(c) THEN 47 + IndexOf(DigitSeq, c)
    ELSE IF IsUpper(c) THEN 64 + IndexOf(UpperSeq, c)
    ELSE IF IsLower(c) THEN 96 + IndexOf(LowerSeq, c)
    ELSE 0

UpperChar(c) == IF IsLower(c) THEN UpperSeq[IndexOf(LowerSeq, c)] ELSE c
LowerChar(c) == IF IsUpper(c) THEN LowerSeq[IndexOf(UpperSeq, c)] ELSE c
\* mutant: references are not normalised to upper case
StrUpper_asis(s) == s
\* str.upper()
StrUpper(s) == [i \in 1..Len(s) |-> UpperChar(s[i])]

Take(s, n) == SubSeq(s, 1, IF Len(s) < n THEN Len(s) ELSE n)

\* truthiness of an optional string: None and "" are falsy
Truthy(s) == s # None /\ s # Missing /\ s # <<>>

\* str < str, by code point, a proper prefix first
RECURSIVE StrLess(_, _)
StrLess(a, b) ==
    IF b = <<>> THEN FALSE
    ELSE IF a = <<>> THEN TRUE
    ELSE IF CharCode(Head(a)) # CharCode(Head(b))
         THEN CharCode(Head(a)) < CharCode(Head(b))
    ELSE StrLess(Tail(a), Tail(b))

\* sorted(refs): ascending, by repeatedly taking the least element
RECURSIVE Sorted(_)
Sorted(S) ==
    IF S = {} THEN <<>>
    ELSE LET m == CHOOSE x \in S : \A y \in S \ {x} : StrLess(x, y)
         IN <<m>> \o Sorted(S \ {m})

(***************************************************************************)
(* Regular expressions of the program.                                     *)
(***************************************************************************)
MinLetters == 3
MaxLetters == 5
MinDigits == 2
MaxDigits == 6
ShortShaLen == 7

WordAt(s, i) == i \in 1..Len(s) /\ IsWordChar(s[i])
\* \b before position i (1 <= i <= Len(s)+1)
Boundary(s, i) == WordAt(s, i - 1) # WordAt(s, i)

LettersAt(s, i, n) == i + n - 1 <= Len(s) /\ \A j \in i..(i + n - 1) : IsLetter(s[j])
DigitsAt(s, i, n) == i + n - 1 <= Len(s) /\ \A j \in i..(i + n - 1) : IsDigit(s[j])

\* \b[a-zA-Z]{3,5}-\d{2,6}\b tried at position i: the position after the
\* match, or 0.  Greedy: more letters before fewer, more digits before fewer.
RefMatchEnd(s, i) ==
    LET ok(k, d) == /\ Boundary(s, i)
                    /\ LettersAt(s, i, k)
                    /\ i + k <= Len(s) /\ s[i + k] = "-"
                    /\ DigitsAt(s, i + k + 1, d)
                    /\ Boundary(s, i + k + 1 + d)
        cands == {kd \in (MinLetters..MaxLetters) \X (MinDigits..MaxDigits) : ok(kd[1], kd[2])}
    IN IF ~WordAt(s, i) \/ cands = {} THEN 0
       ELSE LET best == CHOOSE kd \in cands :
                           \A o \in cands : \/ o[1] < kd[1]
                                            \/ (o[1] = kd[1] /\ o[2] <= kd[2])
            IN i + best[1] + 1 + best[2]

\* pattern.findall(s) from position i: leftmost, non-overlapping
RECURSIVE FindAllFrom(_, _)
FindAllFrom(s, i) ==
    IF i > Len(s) THEN <<>>
    ELSE LET e == RefMatchEnd(s, i)
         IN IF e = 0 THEN FindAllFrom(s, i + 1)
            ELSE <<SubSeq(s, i, e - 1)>> \o FindAllFrom(s, e)

FindAll(s) == FindAllFrom(s, 1)

\* number of digits from position i on
RECURSIVE DigitRun(_, _)
DigitRun(s, i) == IF i <= Len(s) /\ IsDigit(s[i]) THEN 1 + DigitRun(s, i + 1) ELSE 0

\* re.compile(r'^\d+\.\d+\.\d+$').match(build_number); $ also matches
\* before a final newline
validate_build_number(b) ==
    LET r1 == DigitRun(b, 1)
        p1 == 1 + r1
        r2 == DigitRun(b, p1 + 1)
        p2 == p1 + 1 + r2
        r3 == DigitRun(b, p2 + 1)
        p3 == p2 + 1 + r3
    IN /\ r1 >= 1 /\ p1 <= Len(b) /\ b[p1] = "."
       /\ r2 >= 1 /\ p2 <= Len(b) /\ b[p2] = "."
       /\ r3 >= 1
       /\ \/ p3 = Len(b) + 1
          \/ (p3 = Len(b) /\ b[p3] = "\n")

(***************************************************************************)
(* Values of the environment.                                              *)
(***************************************************************************)
Succeeded == <<"succeeded">>
Failed == <<"failed">>
ShaA == <<"a","1","b","2","c","3","d","4","e","5">>
ShaB == <<"f","6","a","7","b","8","c","9","d","0">>
GITHUB_REPO == <<"o","r","g","/","r","e","p","o">>
JiraBaseUrl == <<"https://landmarkinfo.atlassian.net/browse/">>

SeqsUpTo(S, n) == UNION {[1..k -> S] : k \in 0..n}

\* a build of the CI system's answer: b.get("result"), b.get("sourceVersion")
BuildPool == [result : {Succeeded, Failed, None}, sourceVersion : {ShaA, ShaB, <<>>, None}]

RequestErrors == {"conn_error", "timeout", "http_error"}

\* what requests.get / raise_for_status / response.json() can produce; the
\* build-list endpoint reports count = number of entries of value
CIFailure(k) == [kind |-> k, count |-> 0, value |-> <<>>]
CIOk(v) == [kind |-> "ok", count |-> Len(v), value |-> v]
CIResponses == {CIFailure(k) : k \in RequestErrors \cup {"bad_json"}}
               \cup {CIOk(v) : v \in SeqsUpTo(BuildPool, MaxBuilds)}

(***************************************************************************)
(* get_azure_build_commit: the SHA of the first succeeded build, or None.  *)
(***************************************************************************)
\* mutant: the last succeeded build instead of the first
NextSucceeded_last(value, i) ==
    IF \E j \in i..Len(value) : value[j].result = Succeeded
    THEN CHOOSE j \in i..Len(value) :
            /\ value[j].result = Succeeded
            /\ \A l \in (j + 1)..Len(value) : value[l].result # Succeeded
    ELSE 0

\* next((b for b in data["value"] if b.get("result") == "succeeded"), None),
\* as an index into value, 0 for None
RECURSIVE NextSucceeded(_, _)
NextSucceeded(value, i) ==
    IF i > Len(value) THEN 0
    ELSE IF value[i].result = Succeeded THEN i
    ELSE NextSucceeded(value, i + 1)

get_azure_build_commit(response) ==
    IF response.kind \in RequestErrors THEN None
    ELSE IF response.kind = "bad_json" THEN None
    ELSE IF response.count = 0 THEN None
    ELSE LET b == NextSucceeded(response.value, 1)
         IN IF b = 0 THEN None
            ELSE LET commit_sha == response.value[b].sourceVersion
                 IN IF ~Truthy(commit_sha) THEN None ELSE commit_sha

(***************************************************************************)
(* get_github_commits_between: the commits the gh CLI reports and the      *)
(* compare URL.                                                            *)
(***************************************************************************)
\* mutant: the two SHAs the other way round
CompareUrl_swapped(repo, sha1, sha2) ==
    <<"https://github.com/">> \o repo \o <<"/compare/">> \o sha2 \o <<"...">> \o sha1

CompareUrl(repo, sha1, sha2) ==
    <<"https://github.com/">> \o repo \o <<"/compare/">> \o sha1 \o <<"...">> \o sha2

ToolErrors == {"nonzero", "timeout", "not_found"}

GhFailure(k) == [kind |-> k, commits |-> <<>>]
GhOk(cs) == [kind |-> "ok", commits |-> cs]

\* one entry of data["commits"]: c["sha"], c["commit"]["message"],
\* c["commit"]["author"]["name"], c["commit"]["author"]["date"]; Missing
\* where the key (or a dictionary on the way to it) is absent
\* mutant: the date is not looked up
HasAllFields_noDate(c) ==
    c.sha # Missing /\ c.message # Missing /\ c.author # Missing

HasAllFields(c) ==
    c.sha # Missing /\ c.message # Missing /\ c.author # Missing /\ c.date # Missing

CommitInfo(c) ==
    [sha |-> Take(c.sha, ShortShaLen), message |-> c.message,
     author |-> c.author, date |-> c.date]

\* the loop over commits: a KeyError skips the entry
RECURSIVE BuildCommitList(_)
BuildCommitList(commits) ==
    IF commits = <<>> THEN <<>>
    ELSE IF HasAllFields(Head(commits))
         THEN <<CommitInfo(Head(commits))>> \o BuildCommitList(Tail(commits))
    ELSE BuildCommitList(Tail(commits))

get_github_commits_between(repo, sha1, sha2, tool) ==
    LET url == CompareUrl(repo, sha1, sha2)
    IN IF tool.kind \in ToolErrors THEN [commit_list |-> <<>>, compare_url |-> url]
       ELSE IF tool.kind = "bad_json" THEN [commit_list |-> <<>>, compare_url |-> url]
       ELSE [commit_list |-> BuildCommitList(tool.commits), compare_url |-> url]

(***************************************************************************)
(* analyze_commits: the Jira links of the references in the messages.      *)
(***************************************************************************)
\* refs.update([f.upper() for f in found]) for every commit with a message
RECURSIVE CollectRefs(_, _)
CollectRefs(cl, refs) ==
    IF cl = <<>> THEN refs
    ELSE IF Head(cl).message = Missing THEN CollectRefs(Tail(cl), refs)
    ELSE CollectRefs(Tail(cl),
                     refs \cup {StrUpper(f) : f \in Range(FindAll(Head(cl).message))})

analyze_commits(cl) ==
    LET refs_list == Sorted(CollectRefs(cl, {}))
    IN [i \in 1..Len(refs_list) |-> JiraBaseUrl \o refs_list[i]]

(***************************************************************************)
(* export_to_markdown: the strings written to the report, in order.        *)
(***************************************************************************)
Timestamp == <<"%Y-%m-%d %H:%M:%S">>

\* message.split("\n")[0]
RECURSIVE FirstLine(_)
FirstLine(s) ==
    IF s = <<>> \/ Head(s) = "\n" THEN <<>> ELSE <<Head(s)>> \o FirstLine(Tail(s))

PrLink(repo, num) ==
    <<"[#">> \o num \o <<"](https://github.com/">> \o repo \o <<"/pull/">> \o num \o <<")">>

\* re.compile(r"#(\d+)").sub(link, s) from position i
RECURSIVE SubPr(_, _, _)
SubPr(repo, s, i) ==
    IF i > Len(s) THEN <<>>
    ELSE LET d == IF s[i] = "#" THEN DigitRun(s, i + 1) ELSE 0
         IN IF d > 0
            THEN PrLink(repo, SubSeq(s, i + 1, i + d)) \o SubPr(repo, s, i + d + 1)
            ELSE <<s[i]>> \o SubPr(repo, s, i + 1)

CommitLine(repo, c) ==
    <<"- [">> \o c.sha \o <<"](">> \o <<"https://github.com/">> \o repo \o <<"/commit/">>
    \o c.sha \o <<") | ">> \o c.author \o <<" | ">> \o c.date \o <<" | ">>
    \o SubPr(repo, FirstLine(c.message), 1) \o <<"\n">>

NoCommitsLine == <<"No commits found.\n">>
NoRefsLine == <<"No ticket references found.\n">>

RECURSIVE CommitLines(_, _)
CommitLines(repo, cl) ==
    IF cl = <<>> THEN <<>>
    ELSE IF HasAllFields(Head(cl))
         THEN <<CommitLine(repo, Head(cl))>> \o CommitLines(repo, Tail(cl))
    ELSE CommitLines(repo, Tail(cl))

ReportContent(cl, links, repo, url) ==
    << <<"# Commit Report - ">> \o Timestamp \o <<"\n\n">>,
       <<"**GitHub Compare URL:** [">> \o url \o <<"](">> \o url \o <<")\n\n">>,
       <<"## GitHub Commits\n\n">> >>
    \o (IF cl # <<>> THEN CommitLines(repo, cl) ELSE <<NoCommitsLine>>)
    \o << <<"\n## Ticket References\n\n">> >>
    \o (IF links # <<>> THEN [i \in 1..Len(links) |-> <<"- ">> \o links[i] \o <<"\n">>]
        ELSE <<NoRefsLine>>)
    \o << <<"\n_Report generated on ">> \o Timestamp \o <<"_\n">> >>

\* the outcome of writing n strings: all written, open() raises IOError, or
\* the write after the first k strings raises IOError
IoOutcomes(n) ==
    {[kind |-> "ok", k |-> n], [kind |-> "open_fail", k |-> 0]}
    \cup {[kind |-> "write_fail", k |-> j] : j \in 0..(n - 1)}

\* the files after export_to_markdown; open(output_file, "w") truncates
export_to_markdown(fs, cl, links, repo, url, output_file, io) ==
    IF io.kind = "open_fail" THEN fs
    ELSE {f \in fs : f.name # output_file}
         \cup {[name |-> output_file,
                content |-> SubSeq(ReportContent(cl, links, repo, url), 1, io.k)]}

(***************************************************************************)
(* Inputs of a run.                                                        *)
(***************************************************************************)
Script == <<"GetGitHubCommitsFromDevOpsBuild.py">>
ConfigFile == <<"c","f","g","/","a",".","j","s","o","n">>

DigitOf(j) == DigitSeq[(j % 10) + 1]
\* the j-th build number on the command line: 7.1.0, 7.2 (not x.y.z), 7.3.0, ...
CliBuild(j) == IF j % 2 = 1 THEN <<"7", ".", DigitOf(j), ".", "0">>
               ELSE <<"7", ".", DigitOf(j)>>
\* the j-th element of BUILD_NUMBERS in the configuration file
CfgBuild(j) == <<"6", ".", "0", ".", DigitOf(j)>>

\* sys.argv with n arguments after the script
ArgvOf(n) == <<Script>> \o [i \in 1..n |-> IF i = 1 THEN ConfigFile ELSE CliBuild(i - 1)]
\* the configuration file: unreadable or invalid JSON, or BUILD_NUMBERS of k elements
DiskConfigs == {[readable |-> FALSE, BUILD_NUMBERS |-> <<>>]}
               \cup {[readable |-> TRUE, BUILD_NUMBERS |-> [j \in 1..k |-> CfgBuild(j)]]
                     : k \in 0..MaxCfgBuilds}

Build(r, v) == [result |-> r, sourceVersion |-> v]

\* the answers of the CI system a run is explored with
MainCIResponses ==
    {CIFailure("timeout"), CIFailure("http_error"), CIFailure("bad_json"),
     CIOk(<<>>),
     CIOk(<<Build(Failed, ShaA)>>),
     CIOk(<<Build(Succeeded, <<>>)>>),
     CIOk(<<Build(Succeeded, ShaA)>>),
     CIOk(<<Build(Failed, ShaA), Build(Succeeded, ShaB)>>),
     CIOk(<<Build(Succeeded, ShaB), Build(Succeeded, ShaA)>>)}

Msg1 == <<"F","i","x"," ","A","B","C","-","1","2","3">>
Msg2 == <<"A","B","C","-","1","2","3"," ","a","g","a","i","n">>
Msg3 == <<"a","b","c","-","1","2","3"," ","#","4","2","\n","z","e","d","-","4","5"," ","b","o","d","y">>
Msg4 == <<"A","B","C","D","-","1","2"," ","A","B","-","1","2"," ","A","B","C","D","E","F","-","1","2">>
Msg5 == <<"A","B","C","-","1"," ","A","B","C","-","1","2","3","4","5","6","7"," ","A","B","C","D","E","-","1","2">>
Msg6 == <<"n","o"," ","r","e","f","s"," ","#","7">>
Msg7 == <<"X","Y","_","A","B","C","-","1","2"," ","A","B","C","-","9","9","-","A","B","C","-","1","0","0">>

Raw(s, m, a, d) == [sha |-> s, message |-> m, author |-> a, date |-> d]
Ann == <<"Ann">>
Bob == <<"Bob">>
Date1 == <<"2024-01-01T00:00:00Z">>
Date2 == <<"2024-02-02T00:00:00Z">>
Raw1 == Raw(ShaA, Msg1, Ann, Date1)
Raw2 == Raw(ShaB, Msg3, Bob, Date2)
Raw3 == Raw(<<"a", "b", "c">>, Msg6, Ann, Date2)
RawNoSha == Raw(Missing, Msg5, Bob, Date1)
RawNoMessage == Raw(ShaB, Missing, Ann, Date1)
RawNoAuthor == Raw(ShaA, Msg2, Missing, Date1)
RawNoDate == Raw(ShaB, Msg1, Bob, Missing)
RawPool == {Raw1, Raw2, Raw3, RawNoSha, RawNoMessage, RawNoAuthor, RawNoDate}

\* the outcomes of the gh CLI a run is explored with
MainGhOutcomes ==
    {GhFailure("nonzero"), GhFailure("timeout"), GhFailure("not_found"),
     GhFailure("bad_json"),
     GhOk(<<>>), GhOk(<<RawNoAuthor>>), GhOk(<<Raw1>>), GhOk(<<Raw2, Raw1>>),
     GhOk(<<Raw3, RawNoDate, Raw1, Raw2>>)}

(***************************************************************************)
(* The run: module-level configuration load, then main().                  *)
(***************************************************************************)
LastIndexOf(s, c) ==
    IF \E i \in 1..Len(s) : s[i] = c
    THEN CHOOSE i \in 1..Len(s) : s[i] = c /\ \A j \in (i + 1)..Len(s) : s[j] # c
    ELSE 0

\* os.path.basename
Basename(path) == SubSeq(path, LastIndexOf(path, "/") + 1, Len(path))
\* os.path.splitext(name)[0]; leading periods do not start an extension
SplitextRoot(name) ==
    LET dot == LastIndexOf(name, ".")
    IN IF dot > 0 /\ \E j \in 1..(dot - 1) : name[j] # "."
       THEN SubSeq(name, 1, dot - 1) ELSE name

OutputFile(config_file, build1, build2) ==
    SplitextRoot(Basename(config_file)) \o <<"_">> \o build1 \o <<"_">> \o build2
    \o <<"_commit_report.md">>

Init ==
    /\ argv \in {ArgvOf(n) : n \in 0..MaxArgs}
    /\ disk \in DiskConfigs
    /\ config = [loaded |-> FALSE, BUILD_NUMBERS |-> <<>>]
    /\ pc = "load"
    /\ exit_code = 0
    /\ builds = <<>>
    /\ warned = <<>>
    /\ commit_shas = <<>>
    /\ commit_list = <<>>
    /\ compare_url = None
    /\ refs_links = <<>>
    /\ files = {}
    /\ calls = <<>>
    /\ arg = None
    /\ ret = None

\* sys.exit(code)
Exit(code) == pc' = "done" /\ exit_code' = code

\* lines 14-34: usage check, json.load of the configuration file, the globals
LoadConfig ==
    /\ pc = "load"
    /\ IF Len(argv) < 2 THEN Exit(1) /\ UNCHANGED config
       ELSE IF ~disk.readable THEN Exit(1) /\ UNCHANGED config
       ELSE /\ config' = [loaded |-> TRUE, BUILD_NUMBERS |-> disk.BUILD_NUMBERS]
            /\ pc' = "main"
            /\ UNCHANGED exit_code
    /\ UNCHANGED <<argv, disk, builds, warned, commit_shas, commit_list, compare_url,
                   refs_links, files, calls, arg, ret>>

\* the command-line pair is used when len(sys.argv) == 4
UseCommandLine(av) == Len(av) = 4

\* lines 209-223: the two build numbers, from the command line or from
\* BUILD_NUMBERS, and the warnings about their format
SelectBuilds ==
    /\ pc = "main"
    /\ IF UseCommandLine(argv)
       THEN /\ builds' = <<argv[3], argv[4]>>
            /\ warned' = SelectSeq(builds', LAMBDA b : ~validate_build_number(b))
            /\ pc' = "resolve1"
            /\ UNCHANGED exit_code
       ELSE IF Len(config.BUILD_NUMBERS) # 2
       THEN Exit(1) /\ UNCHANGED <<builds, warned>>
       ELSE /\ builds' = config.BUILD_NUMBERS
            /\ warned' = SelectSeq(builds', LAMBDA b : ~validate_build_number(b))
            /\ pc' = "resolve1"
            /\ UNCHANGED exit_code
    /\ UNCHANGED <<argv, disk, config, commit_shas, commit_list, compare_url,
                   refs_links, files, calls, arg, ret>>

\* mutant: the loop ends after its first iteration
AfterResolve_once(p) == "check"

\* the position after one iteration of the loop of lines 226-229
AfterResolve(p) == IF p = "resolve1" THEN "resolve2" ELSE "check"

\* mutant: the SHA is appended whether or not the build resolved
AddSha_always(shas, sha) == Append(shas, sha)

\* mutant: the SHA is put in front
AddSha_front(shas, sha) == IF Truthy(sha) THEN <<sha>> \o shas ELSE shas

\* lines 228-229: if sha: commit_shas.append(sha)
AddSha(shas, sha) == IF Truthy(sha) THEN Append(shas, sha) ELSE shas

\* lines 226-229, one iteration: query the CI system for one build number
ResolveBuild ==
    /\ pc \in {"resolve1", "resolve2"}
    /\ \E response \in MainCIResponses :
         LET build_num == IF pc = "resolve1" THEN builds[1] ELSE builds[2]
             sha == get_azure_build_commit(response)
         IN /\ commit_shas' = AddSha(commit_shas, sha)
            /\ calls' = Append(calls, [fn |-> "ci", build |-> build_num,
                                       response |-> response, ret |-> sha])
    /\ pc' = AfterResolve(pc)
    /\ UNCHANGED <<argv, disk, config, exit_code, builds, warned, commit_list,
                   compare_url, refs_links, files, arg, ret>>

\* len(commit_shas) < 2
TooFewShas(shas) == Len(shas) < 2

\* lines 231-236: abort without two SHAs, else fetch the commits between them
FetchCommits ==
    /\ pc = "check"
    /\ IF TooFewShas(commit_shas)
       THEN Exit(1) /\ UNCHANGED <<commit_list, compare_url, calls>>
       ELSE \E tool \in MainGhOutcomes :
              LET sha1 == commit_shas[1]
                  sha2 == commit_shas[2]
                  r == get_github_commits_between(GITHUB_REPO, sha1, sha2, tool)
              IN /\ commit_list' = r.commit_list
                 /\ compare_url' = r.compare_url
                 /\ calls' = Append(calls, [fn |-> "gh", sha1 |-> sha1, sha2 |-> sha2,
                                            tool |-> tool])
                 /\ pc' = "fetched"
                 /\ UNCHANGED exit_code
    /\ UNCHANGED <<argv, disk, config, builds, warned, commit_shas, refs_links, files,
                   arg, ret>>

\* mutant: no early return on an empty commit list
AnalyzeCommits_noReturn ==
    /\ pc = "fetched"
    /\ refs_links' = analyze_commits(commit_list)
    /\ calls' = Append(calls, [fn |-> "analyze"])
    /\ pc' = "export"
    /\ UNCHANGED <<argv, disk, config, exit_code, builds, warned, commit_shas,
                   commit_list, compare_url, files, arg, ret>>

\* lines 238-242: return on an empty commit list, else extract the references
AnalyzeCommits ==
    /\ pc = "fetched"
    /\ IF commit_list = <<>>
       THEN Exit(0) /\ UNCHANGED <<refs_links, calls>>
       ELSE /\ refs_links' = analyze_commits(commit_list)
            /\ calls' = Append(calls, [fn |-> "analyze"])
            /\ pc' = "export"
            /\ UNCHANGED exit_code
    /\ UNCHANGED <<argv, disk, config, builds, warned, commit_shas, commit_list,
                   compare_url, files, arg, ret>>

\* mutant: a failed write ends the process with exit code 1
ExportReport_fatal ==
    /\ pc = "export"
    /\ LET output_file == OutputFile(argv[2], builds[1], builds[2])
           n == Len(ReportContent(commit_list, refs_links, GITHUB_REPO, compare_url))
       IN \E io \in IoOutcomes(n) :
            /\ files' = export_to_markdown(files, commit_list, refs_links, GITHUB_REPO,
                                           compare_url, output_file, io)
            /\ calls' = Append(calls, [fn |-> "export", output_file |-> output_file,
                                       io |-> io])
            /\ Exit(IF io.kind = "ok" THEN 0 ELSE 1)
    /\ UNCHANGED <<argv, disk, config, builds, warned, commit_shas, commit_list,
                   compare_url, refs_links, arg, ret>>

\* lines 245-248: name the report and write it; main returns
ExportReport ==
    /\ pc = "export"
    /\ LET output_file == OutputFile(argv[2], builds[1], builds[2])
           n == Len(ReportContent(commit_list, refs_links, GITHUB_REPO, compare_url))
       IN \E io \in IoOutcomes(n) :
            /\ files' = export_to_markdown(files, commit_list, refs_links, GITHUB_REPO,
                                           compare_url, output_file, io)
            /\ calls' = Append(calls, [fn |-> "export", output_file |-> output_file,
                                       io |-> io])
    /\ Exit(0)
    /\ UNCHANGED <<argv, disk, config, builds, warned, commit_shas, commit_list,
                   compare_url, refs_links, arg, ret>>

Next ==
    \/ LoadConfig
    \/ SelectBuilds
    \/ ResolveBuild
    \/ FetchCommits
    \/ AnalyzeCommits
    \/ ExportReport

Spec == Init /\ [][Next]_vars

(***************************************************************************)
(* The functions on their own: the argument is drawn from a bounded set    *)
(* and the function is applied once.                                       *)
(***************************************************************************)
Idle ==
    /\ argv = ArgvOf(0)
    /\ disk = [readable |-> FALSE, BUILD_NUMBERS |-> <<>>]
    /\ config = [loaded |-> FALSE, BUILD_NUMBERS |-> <<>>]
    /\ exit_code = 0
    /\ builds = <<>>
    /\ warned = <<>>
    /\ commit_shas = <<>>
    /\ commit_list = <<>>
    /\ compare_url = None
    /\ refs_links = <<>>
    /\ files = {}
    /\ calls = <<>>

Return(v) ==
    /\ pc = "call"
    /\ ret' = v
    /\ pc' = "returned"
    /\ UNCHANGED <<argv, disk, config, exit_code, builds, warned, commit_shas,
                   commit_list, compare_url, refs_links, files, calls, arg>>

InitResolve == Idle /\ pc = "call" /\ ret = None /\ arg \in CIResponses
CallResolve == Return(get_azure_build_commit(arg))
SpecResolve == InitResolve /\ [][CallResolve]_vars

GhOutcomes == {GhFailure(k) : k \in ToolErrors \cup {"bad_json"}}
              \cup {GhOk(cs) : cs \in SeqsUpTo(RawPool, MaxCommits)}
InitFetch ==
    /\ Idle /\ pc = "call" /\ ret = None
    /\ arg \in [sha1 : {ShaA, ShaB}, sha2 : {ShaA, ShaB}, tool : GhOutcomes]
CallFetch == Return(get_github_commits_between(GITHUB_REPO, arg.sha1, arg.sha2, arg.tool))
SpecFetch == InitFetch /\ [][CallFetch]_vars

\* commit records as analyze_commits receives them, the message possibly absent
AnalyzePool == {Raw(Take(ShaA, ShortShaLen), m, Ann, Date1)
                : m \in {Msg1, Msg2, Msg3, Msg4, Msg7, Missing}}
InitAnalyze == Idle /\ pc = "call" /\ ret = None /\ arg \in SeqsUpTo(AnalyzePool, MaxCommits)
CallAnalyze == Return(analyze_commits(arg))
SpecAnalyze == InitAnalyze /\ [][CallAnalyze]_vars

(***************************************************************************)
(* Properties.                                                             *)
(***************************************************************************)
CallsOf(f) == SelectSeq(calls, LAMBDA c : c.fn = f)
CiCalls == CallsOf("ci")
GhCalls == CallsOf("gh")
AnalyzeCalls == CallsOf("analyze")
ExportCalls == CallsOf("export")

\* C1: when at least one of the two build numbers resolves to no SHA, the
\* run can only end, with exit code 1, and the compare fetch, the reference
\* extraction and the report writer are never invoked; no report file exists.
C1_AbortWithoutTwoShas ==
    (Len(CiCalls) = 2 /\ \E i \in 1..2 : CiCalls[i].ret = None)
    => /\ pc \in {"check", "done"}
       /\ pc = "done" => exit_code = 1
       /\ GhCalls = <<>> /\ AnalyzeCalls = <<>> /\ ExportCalls = <<>>
       /\ files = {}

C1_Witness ==
    /\ pc = "done" /\ exit_code = 1
    /\ Len(CiCalls) = 2
    /\ CiCalls[1].ret # None /\ CiCalls[2].ret = None

\* C2: when both SHAs resolved and the fetched commit list is empty, the run
\* ends with exit code 0 and neither extracts references nor writes a
\* report; a run that ends after resolution without a fetch (the abort) has
\* exit code 1.
C2_EmptyRangeReturns ==
    /\ (pc = "done" /\ Len(GhCalls) = 1 /\ commit_list = <<>>)
       => /\ exit_code = 0
          /\ Len(commit_shas) = 2
          /\ AnalyzeCalls = <<>> /\ ExportCalls = <<>>
          /\ files = {}
    /\ (pc = "done" /\ Len(CiCalls) = 2 /\ GhCalls = <<>>) => exit_code = 1

C2_Witness ==
    /\ pc = "done" /\ exit_code = 0
    /\ Len(GhCalls) = 1 /\ GhCalls[1].tool = GhOk(<<>>)
    /\ commit_list = <<>> /\ files = {}

\* the number of build numbers given on the command line
CliBuildCount == IF Len(argv) >= 2 THEN Len(argv) - 2 ELSE 0

\* C3 (as claimed): once the build numbers are decided, a command-line pair
\* is used when exactly two are given, BUILD_NUMBERS when none is given and
\* it has two elements, and every other combination has ended the run with
\* exit code 1 before any build was resolved.
C3_ExactlyTwoFromEitherSource ==
    (config.loaded /\ pc # "main")
    => IF CliBuildCount = 2 THEN builds = <<argv[3], argv[4]>>
       ELSE IF CliBuildCount = 0 /\ Len(config.BUILD_NUMBERS) = 2
            THEN builds = config.BUILD_NUMBERS
       ELSE pc = "done" /\ exit_code = 1 /\ CiCalls = <<>>

\* the causes of a fatal exit
ConfigError == Len(argv) < 2 \/ ~disk.readable
NoBuildPair == ~ConfigError /\ Len(argv) # 4 /\ Len(disk.BUILD_NUMBERS) # 2
FewerThanTwoShas == \E i \in 1..Len(CiCalls) : CiCalls[i].ret = None

SucceededAt(value) == {i \in 1..Len(value) : value[i].result = Succeeded}
FirstSucceededAt(value) ==
    CHOOSE i \in SucceededAt(value) : \A j \in SucceededAt(value) : i <= j

\* C5: for a build list returned by the CI query, the result is the source
\* revision of the first entry whose result is "succeeded"; it is absent
\* when the list is empty or has no succeeded entry, and when that entry's
\* source revision is empty.
C5_FirstSucceededRevision ==
    (pc = "returned" /\ arg.kind = "ok")
    => IF SucceededAt(arg.value) = {} THEN ret = None
       ELSE LET rev == arg.value[FirstSucceededAt(arg.value)].sourceVersion
            IN IF rev = <<>> \/ rev = None THEN ret = None ELSE ret = rev

C5_Witness ==
    /\ pc = "returned" /\ arg.kind = "ok" /\ Len(arg.value) = 3
    /\ arg.value[1].result = Failed
    /\ arg.value[2].result = Succeeded /\ arg.value[2].sourceVersion = ShaB
    /\ arg.value[3].result = Succeeded /\ arg.value[3].sourceVersion = ShaA
    /\ ret = ShaB

\* the first succeeded build of an answer carries a source revision
Resolvable(response) ==
    /\ response.kind = "ok"
    /\ SucceededAt(response.value) # {}
    /\ LET rev == response.value[FirstSucceededAt(response.value)].sourceVersion
       IN rev # <<>> /\ rev # None
RevisionOf(response) == response.value[FirstSucceededAt(response.value)].sourceVersion

\* C6 (as claimed): when the CI system's answers for both build numbers
\* contain a succeeded build, resolution yields two non-empty SHAs.
C6_TwoSucceededGiveTwoShas ==
    (/\ Len(CiCalls) = 2
     /\ \A i \in 1..2 : /\ CiCalls[i].response.kind = "ok"
                        /\ SucceededAt(CiCalls[i].response.value) # {})
    => Len(commit_shas) = 2 /\ commit_shas[1] # <<>> /\ commit_shas[2] # <<>>

\* C6 (amended): when for both build numbers the first succeeded build of
\* the answer has a non-empty source revision, resolution yields exactly
\* these two revisions, the first build number's first, and they are the
\* first and the second SHA of the compare fetch.
C6_ShasInBuildOrder ==
    (Len(CiCalls) = 2 /\ Resolvable(CiCalls[1].response) /\ Resolvable(CiCalls[2].response))
    => /\ CiCalls[1].build = builds[1] /\ CiCalls[2].build = builds[2]
       /\ commit_shas = <<RevisionOf(CiCalls[1].response), RevisionOf(CiCalls[2].response)>>
       /\ \A i \in 1..Len(GhCalls) :
            /\ GhCalls[i].sha1 = RevisionOf(CiCalls[1].response)
            /\ GhCalls[i].sha2 = RevisionOf(CiCalls[2].response)

C6_Witness ==
    /\ Len(GhCalls) = 1
    /\ builds[1] # builds[2]
    /\ CiCalls[1].response = CIOk(<<Build(Failed, ShaA), Build(Succeeded, ShaB)>>)
    /\ CiCalls[2].response = CIOk(<<Build(Succeeded, ShaA)>>)
    /\ GhCalls[1].sha1 = ShaB /\ GhCalls[1].sha2 = ShaA

\* C7: whatever the gh CLI does, the result carries the compare URL made of
\* the repository and the two SHAs in argument order; on a non-zero exit, a
\* timeout, a missing executable and a malformed JSON answer the commit
\* list is empty.
C7_CompareUrlAlways ==
    pc = "returned"
    => /\ ret.compare_url = <<"https://github.com/">> \o GITHUB_REPO \o <<"/compare/">>
                            \o arg.sha1 \o <<"...">> \o arg.sha2
       /\ arg.tool.kind # "ok" => ret.commit_list = <<>>

C7_Witness ==
    /\ pc = "returned"
    /\ arg.tool.kind = "not_found"
    /\ arg.sha1 = ShaA /\ arg.sha2 = ShaB
    /\ ret.commit_list = <<>> /\ ret.compare_url # None

\* positions i..j of message m hold a reference: 3 to 5 letters, a hyphen,
\* 2 to 6 digits, between word boundaries
IsRefAt(m, i, j) ==
    \E k \in MinLetters..MaxLetters :
        /\ j - (i + k) \in MinDigits..MaxDigits
        /\ \A x \in i..(i + k - 1) : IsLetter(m[x])
        /\ m[i + k] = "-"
        /\ \A x \in (i + k + 1)..j : IsDigit(m[x])
        /\ (i = 1 \/ ~IsWordChar(m[i - 1]))
        /\ (j = Len(m) \/ ~IsWordChar(m[j + 1]))

\* the upper-cased references in the messages of a commit list
KeysIn(cl) ==
    UNION {{[x \in 1..(ij[2] - ij[1] + 1) |-> UpperChar(cl[n].message[ij[1] + x - 1])]
            : ij \in {p \in (1..Len(cl[n].message)) \X (1..Len(cl[n].message)) :
                        p[1] <= p[2] /\ IsRefAt(cl[n].message, p[1], p[2])}}
           : n \in {n \in 1..Len(cl) : cl[n].message # Missing}}

Permuted(cl) == {[i \in 1..Len(cl) |-> cl[f[i]]] : f \in Permutations(1..Len(cl))}
InUpperCase(cl) ==
    [i \in 1..Len(cl) |->
        IF cl[i].message = Missing THEN cl[i]
        ELSE [cl[i] EXCEPT !.message =
                 [x \in 1..Len(cl[i].message) |-> UpperChar(cl[i].message[x])]]]
InLowerCase(cl) ==
    [i \in 1..Len(cl) |->
        IF cl[i].message = Missing THEN cl[i]
        ELSE [cl[i] EXCEPT !.message =
                 [x \in 1..Len(cl[i].message) |-> LowerChar(cl[i].message[x])]]]

\* C8: the result holds one link per distinct upper-cased reference of the
\* messages, in ascending order of the reference, and is the same for every
\* permutation of the commits, for the list repeated, and for the messages
\* in upper or in lower case.
C8_UniqueSortedLinks ==
    pc = "returned"
    => /\ {ret[i] : i \in 1..Len(ret)} = {JiraBaseUrl \o k : k \in KeysIn(arg)}
       /\ Len(ret) = Cardinality(KeysIn(arg))
       /\ \A i \in 1..Len(ret) : \A j \in (i + 1)..Len(ret) :
            StrLess(Tail(ret[i]), Tail(ret[j]))
       /\ \A q \in Permuted(arg) : analyze_commits(q) = ret
       /\ analyze_commits(arg \o arg) = ret
       /\ analyze_commits(InUpperCase(arg)) = ret
       /\ analyze_commits(InLowerCase(arg)) = ret

C8_Witness ==
    /\ pc = "returned"
    /\ Len(arg) = 3
    /\ arg[1].message = Msg1 /\ arg[2].message = Msg3 /\ arg[3].message = Msg2
    /\ ret = << JiraBaseUrl \o <<"A","B","C","-","1","2","3">>,
                JiraBaseUrl \o <<"Z","E","D","-","4","5">> >>

\* C9: the CI query is the first two calls of a run that resolves builds,
\* one for the first build number and then one for the second, whatever the
\* first returned; there is never a third, and the compare tool runs at
\* most once and only after both.
C9_SequentialNoRetry ==
    /\ Len(CiCalls) <= 2 /\ Len(GhCalls) <= 1
    /\ \A i \in 1..Len(CiCalls) : calls[i].fn = "ci" /\ calls[i].build = builds[i]
    /\ pc = "resolve1" => CiCalls = <<>>
    /\ pc = "resolve2" => Len(CiCalls) = 1
    /\ (builds # <<>> /\ pc \notin {"resolve1", "resolve2"}) => Len(CiCalls) = 2
    /\ GhCalls # <<>> => Len(calls) >= 3 /\ calls[3].fn = "gh"

C9_Witness ==
    /\ pc = "done"
    /\ Len(CiCalls) = 2
    /\ CiCalls[1].response.kind = "timeout" /\ CiCalls[1].ret = None
    /\ CiCalls[2].ret = ShaA
    /\ GhCalls = <<>>

\* the strings of a report that are commit lines
CommitLinesOf(content) == {i \in 1..Len(content) : Head(content[i]) = "- ["}

\* C10: the report writer is invoked at most once, and only with both SHAs
\* resolved and a non-empty commit list whose records all carry sha,
\* message, author and date; a report that was written in full has one
\* commit line per record and no report has the "No commits found." line.
C10_ReportOnlyWithCommits ==
    /\ Len(ExportCalls) <= 1
    /\ ExportCalls # <<>>
       => /\ Len(commit_shas) = 2 /\ Len(GhCalls) = 1
          /\ commit_list # <<>>
          /\ \A i \in 1..Len(commit_list) :
               /\ commit_list[i].sha # Missing /\ commit_list[i].message # Missing
               /\ commit_list[i].author # Missing /\ commit_list[i].date # Missing
    /\ files # {} => Len(ExportCalls) = 1
    /\ \A f \in files :
         /\ \A i \in 1..Len(f.content) : f.content[i] # NoCommitsLine
         /\ ExportCalls[1].io.kind = "ok"
            => /\ Cardinality(CommitLinesOf(f.content)) = Len(commit_list)
               /\ Cardinality(CommitLinesOf(f.content)) >= 1

C10_Witness ==
    /\ pc = "done"
    /\ Len(ExportCalls) = 1 /\ ExportCalls[1].io.kind = "ok"
    /\ GhCalls[1].tool = GhOk(<<Raw3, RawNoDate, Raw1, Raw2>>)
    /\ Len(commit_list) = 3
    /\ \E f \in files : Cardinality(CommitLinesOf(f.content)) = 3

====
